---------------------------- MODULE Spec2Model ----------------------------
(***************************************************************************)
(* Model of firmware_slap/celery_tasks.py: the fan-out / fan-in helpers    *)
(* async_and_iter and async_and_iter_clusters, the tracker                 *)
(* check_iter_status and the reporter display_scores_list.                 *)
(*                                                                         *)
(* The Celery result backend is the environment: a table of tasks, each    *)
(* PENDING until the backend moves it, once, to SUCCESS (with a result)    *)
(* or to FAILURE.  A handle (AsyncResult) is the index of its task.        *)
(*                                                                         *)
(* Every list comprehension of the code that queries the handles is one    *)
(* step of the workflow; the backend may move tasks between any two        *)
(* steps.  Because a task's state only moves PENDING -> terminal and the   *)
(* tasks are independent, what a comprehension reads handle by handle is   *)
(* what one of these atomic steps reads for some order of completions.     *)
(***************************************************************************)
EXTENDS Integers, Sequences, FiniteSets, TLC

\* ------------------------------------------------------------------ bounds
MaxItems == 3       \* longest async_list given to async_and_iter
MaxCentroid == 5    \* largest max_centroid given to async_and_iter_clusters
MaxCount == 2       \* results carry a count in 2..MaxCount
MaxScore == 2       \* results carry a score in 1..MaxScore

VARIABLES
    flavor,         \* the caller: "iter", "clusters", or "tracker" (SpecTracker)
    async_list,     \* the work items, in order
    max_centroid,   \* argument of async_and_iter_clusters
    tasks,          \* the backend: task id -> [item, state, result]
    async_funcs,    \* the handles, in submission order
    pc,             \* position of the workflow
    bar_total,      \* tqdm bar: total
    bar_n,          \* tqdm bar: n, the progress shown
    done_count,     \* local done_count
    done_list,      \* the seen list
    display_scores, \* flag of the last check_iter_status sweep
    rendered,       \* the calls of display_scores_list so far
    ret,            \* the list returned
    exc             \* the exception that ended the workflow, or "none"

vars == <<flavor, async_list, max_centroid, tasks, async_funcs, pc, bar_total,
          bar_n, done_count, done_list, display_scores, rendered, ret, exc>>

\* ------------------------------------------------------------- data model
\* A ResultRecord, the dict a successful job returns; display_scores_list
\* reads its 'count' and 'score'.  Equality is equality of all fields.
ResultRecord == [count : 2..MaxCount, score : 1..MaxScore]

\* What a handle holds before it is ready, and what get(propagate=False)
\* returns for a failed job (the exception instance): neither is a record
\* a job can return.
NoneResult == [count |-> 0, score |-> 0]
ExcResult == [count |-> -1, score |-> -1]

\* range(a, b) of Python, as a sequence.
Range(a, b) == IF b > a THEN [i \in 1..(b - a) |-> a + i - 1] ELSE << >>

\* x in list
In(x, list) == \E i \in 1..Len(list) : list[i] = x

\* AsyncResult.successful(), .failed(), .ready(), .get(propagate=False)
successful(backend, x) == backend[x].state = "SUCCESS"
failed(backend, x) == backend[x].state = "FAILURE"
ready(backend, x) == backend[x].state \in {"SUCCESS", "FAILURE"}
get(backend, x) == backend[x].result

\* x.successful() or x.failed()
terminal(backend, x) == successful(backend, x) \/ failed(backend, x)

\* all([x.successful() or x.failed() for x in async_funcs])
all_terminal(backend, handles) ==
    \A i \in 1..Len(handles) : terminal(backend, handles[i])

\* len([... for x in async_funcs if x.successful() or x.failed()])
count_terminal(backend, handles) ==
    Len(SelectSeq(handles, LAMBDA x : terminal(backend, x)))

\* collect with the results in reverse submission order.
collect_reversed(backend, handles) ==
    LET kept == SelectSeq(handles, LAMBDA x : ~failed(backend, x))
    IN  [i \in 1..Len(kept) |-> get(backend, kept[Len(kept) + 1 - i])]

\* collect without "if not x.failed()": a failed handle leaves the
\* exception that get(propagate=False) returns.
collect_unfiltered(backend, handles) ==
    [i \in 1..Len(handles) |-> get(backend, handles[i])]

\* collect keeping one entry per value: the first of equal results.
collect_distinct(backend, handles) ==
    LET kept == SelectSeq(handles, LAMBDA x : ~failed(backend, x))
        first == {i \in 1..Len(kept) :
                     \A j \in 1..(i - 1) :
                         get(backend, kept[j]) # get(backend, kept[i])}
        nth(p) == CHOOSE i \in first : Cardinality({j \in first : j <= i}) = p
    IN  [p \in 1..Cardinality(first) |-> get(backend, kept[nth(p)])]

\* [x.get(propagate=False) for x in async_funcs if not x.failed()]
collect(backend, handles) ==
    LET kept == SelectSeq(handles, LAMBDA x : ~failed(backend, x))
    IN  [i \in 1..Len(kept) |-> get(backend, kept[i])]


\* ------------------------------------------------------------ the reporter
\* sorted(list, key=lambda k: k[key]): Python's sort is stable, so item i
\* comes after the items whose key is smaller and after the items of the
\* same key that stand before it in list.
sorted_place(list, key, i) ==
    Cardinality({j \in 1..Len(list) :
                    \/ list[j][key] < list[i][key]
                    \/ (list[j][key] = list[i][key] /\ j <= i)})

sorted(list, key) ==
    [p \in 1..Len(list) |->
        list[CHOOSE i \in 1..Len(list) : sorted_place(list, key, i) = p]]

\* display_scores_list sorting in place, done_list.sort(key=...), instead
\* of sorted(done_list, key=...): the caller's list is left sorted by score.
display_scores_list_in_place(list, plot_it) ==
    [arg       |-> list,
     temp_list |-> sorted(list, "score"),
     plot_list |-> IF plot_it THEN sorted(list, "count") ELSE << >>,
     done_list |-> sorted(list, "score"),
     raises    |-> IF plot_it THEN "NameError" ELSE "none"]

\* display_scores_list(done_list, per_row=2, plot_it=True): prints the table
\* of temp_list, the list sorted by score; with plot_it it sorts plot_list by
\* count and then calls plt.ion().  The module never imports or binds plt,
\* so that call raises NameError: the table is on the screen, nothing is
\* plotted, and the exception leaves display_scores_list.  done_list itself
\* is not touched (sorted() builds new lists): the field done_list is the
\* caller's list as the call leaves it.
display_scores_list(list, plot_it) ==
    [arg       |-> list,
     temp_list |-> sorted(list, "score"),
     plot_list |-> IF plot_it THEN sorted(list, "count") ELSE << >>,
     done_list |-> list,
     raises    |-> IF plot_it THEN "NameError" ELSE "none"]

\* ------------------------------------------------------------- the tracker
\* ready_results without "if not x.failed()": the exception that
\* get(propagate=False) returns for a failed handle is taken as a result.
ready_results_with_failed(backend, async_items) ==
    LET are_ready == SelectSeq(async_items, LAMBDA y : ready(backend, y))
    IN  [i \in 1..Len(are_ready) |-> get(backend, are_ready[i])]

\* ready_results without the ready() filter: what a pending handle holds is
\* taken as a result.
ready_results_with_pending(backend, async_items) ==
    LET kept == SelectSeq(async_items, LAMBDA x : ~failed(backend, x))
    IN  [i \in 1..Len(kept) |-> get(backend, kept[i])]

\* ret of check_iter_status: the results of the handles that are ready and
\* not failed, in handle order.
ready_results(backend, async_items) ==
    LET are_ready == SelectSeq(async_items, LAMBDA y : ready(backend, y))
        kept == SelectSeq(are_ready, LAMBDA x : ~failed(backend, x))
    IN  [i \in 1..Len(kept) |-> get(backend, kept[i])]

\* check_item without the membership test.
check_item_no_dedup(acc, item) ==
    [done_list |-> Append(acc.done_list, item), display_scores |-> TRUE]

\* check_item with "display_scores = True" outside the if.
check_item_flag_always(acc, item) ==
    [done_list |-> IF ~In(item, acc.done_list)
                   THEN Append(acc.done_list, item) ELSE acc.done_list,
     display_scores |-> TRUE]

\* One turn of "for item in ret": acc is [done_list, display_scores].
check_item(acc, item) ==
    IF ~In(item, acc.done_list)
    THEN [done_list |-> Append(acc.done_list, item), display_scores |-> TRUE]
    ELSE acc

RECURSIVE for_item_in(_, _)
for_item_in(items, acc) ==
    IF items = << >> THEN acc
    ELSE for_item_in(Tail(items), check_item(acc, Head(items)))

\* check_iter_status testing membership in the list as it was passed in
\* (a copy), not in the list being appended to.
RECURSIVE for_item_in_stale(_, _, _)
for_item_in_stale(items, acc, passed) ==
    IF items = << >> THEN acc
    ELSE for_item_in_stale(
             Tail(items),
             IF ~In(Head(items), passed)
             THEN [done_list |-> Append(acc.done_list, Head(items)),
                   display_scores |-> TRUE]
             ELSE acc,
             passed)

check_iter_status_stale(backend, async_items, list) ==
    for_item_in_stale(ready_results(backend, async_items),
                      [done_list |-> list, display_scores |-> FALSE], list)

\* check_iter_status(async_items, done_list) up to "if display_scores": the
\* list as the sweep leaves it (it is appended to in place) and the flag.
check_iter_status(backend, async_items, list) ==
    for_item_in(ready_results(backend, async_items),
                [done_list |-> list, display_scores |-> FALSE])

\* ---------------------------------------------------------------- actions
\* The items the dispatch loop iterates: async_list in async_and_iter,
\* range(2, max_centroid) in async_and_iter_clusters.
work_items ==
    IF flavor = "clusters" THEN Range(2, max_centroid) ELSE async_list

LoopPcs == {"while", "count", "update", "sweep", "sleep"}

Init ==
    /\ flavor \in {"iter", "clusters"}
    /\ IF flavor = "iter"
       THEN /\ \E n \in 0..MaxItems : async_list = [i \in 1..n |-> i]
            /\ max_centroid = 0
       ELSE /\ async_list = << >>
            /\ max_centroid \in 0..MaxCentroid
    /\ tasks = << >>
    /\ async_funcs = << >>
    /\ pc = "dispatch"
    /\ bar_total = 0
    /\ bar_n = 0
    /\ done_count = 0
    /\ done_list = << >>
    /\ display_scores = FALSE
    /\ rendered = << >>
    /\ ret = << >>
    /\ exc = "none"

\* The backend finishes a pending task with result r.
TaskSucceeds ==
    \E t \in 1..Len(tasks), r \in ResultRecord :
        /\ tasks[t].state = "PENDING"
        /\ tasks' = [tasks EXCEPT ![t].state = "SUCCESS", ![t].result = r]
        /\ UNCHANGED <<flavor, async_list, max_centroid, async_funcs, pc,
                       bar_total, bar_n, done_count, done_list,
                       display_scores, rendered, ret, exc>>

\* The backend records that a pending task failed.
TaskFails ==
    \E t \in 1..Len(tasks) :
        /\ tasks[t].state = "PENDING"
        /\ tasks' = [tasks EXCEPT ![t].state = "FAILURE",
                                  ![t].result = ExcResult]
        /\ UNCHANGED <<flavor, async_list, max_centroid, async_funcs, pc,
                       bar_total, bar_n, done_count, done_list,
                       display_scores, rendered, ret, exc>>

\* Delay with async_funcs.insert(0, n_task): the new handle goes first.
Delay_insert_first ==
    /\ pc = "dispatch"
    /\ Len(async_funcs) < Len(work_items)
    /\ tasks' = Append(tasks, [item   |-> work_items[Len(async_funcs) + 1],
                               state  |-> "PENDING",
                               result |-> NoneResult])
    /\ async_funcs' = <<Len(tasks) + 1>> \o async_funcs
    /\ UNCHANGED <<flavor, async_list, max_centroid, pc, bar_total, bar_n,
                   done_count, done_list, display_scores, rendered, ret, exc>>

\* n_task = <task>.delay(item); async_funcs.append(n_task)
Delay ==
    /\ pc = "dispatch"
    /\ Len(async_funcs) < Len(work_items)
    /\ tasks' = Append(tasks, [item   |-> work_items[Len(async_funcs) + 1],
                               state  |-> "PENDING",
                               result |-> NoneResult])
    /\ async_funcs' = Append(async_funcs, Len(tasks) + 1)
    /\ UNCHANGED <<flavor, async_list, max_centroid, pc, bar_total, bar_n,
                   done_count, done_list, display_scores, rendered, ret, exc>>

\* DelayRaises inside a try/except that notes the error and goes on with
\* the dispatch loop.
DelayRaises_caught ==
    /\ pc = "dispatch"
    /\ Len(async_funcs) < Len(work_items)
    /\ exc' = "SubmitError"
    /\ UNCHANGED <<flavor, async_list, max_centroid, tasks, async_funcs, pc,
                   bar_total, bar_n, done_count, done_list, display_scores,
                   rendered, ret>>

\* delay() raises (the broker cannot be reached): nothing catches it.
DelayRaises ==
    /\ pc = "dispatch"
    /\ Len(async_funcs) < Len(work_items)
    /\ pc' = "raised"
    /\ exc' = "SubmitError"
    /\ UNCHANGED <<flavor, async_list, max_centroid, tasks, async_funcs,
                   bar_total, bar_n, done_count, done_list, display_scores,
                   rendered, ret>>

\* The for loop is exhausted; async_and_iter creates its bar,
\* bar = tqdm.tqdm(total=len(async_funcs)), whose n starts at 0.
EnterLoop ==
    /\ pc = "dispatch"
    /\ Len(async_funcs) = Len(work_items)
    /\ pc' = "while"
    /\ bar_total' = IF flavor = "iter" THEN Len(async_funcs) ELSE bar_total
    /\ bar_n' = IF flavor = "iter" THEN 0 ELSE bar_n
    /\ UNCHANGED <<flavor, async_list, max_centroid, tasks, async_funcs,
                   done_count, done_list, display_scores, rendered, ret, exc>>

\* WhileTest that submits the job of a failed handle again and puts the new
\* handle in its place.
WhileTest_resubmit ==
    /\ pc = "while"
    /\ IF \E i \in 1..Len(async_funcs) : failed(tasks, async_funcs[i])
       THEN LET i == CHOOSE j \in 1..Len(async_funcs) :
                         failed(tasks, async_funcs[j])
            IN  /\ tasks' = Append(tasks, [item   |-> tasks[async_funcs[i]].item,
                                           state  |-> "PENDING",
                                           result |-> NoneResult])
                /\ async_funcs' = [async_funcs EXCEPT ![i] = Len(tasks) + 1]
                /\ pc' = "count"
       ELSE /\ pc' = IF all_terminal(tasks, async_funcs)
                     THEN "collect" ELSE "count"
            /\ UNCHANGED <<tasks, async_funcs>>
    /\ UNCHANGED <<flavor, async_list, max_centroid, bar_total, bar_n,
                   done_count, done_list, display_scores, rendered, ret, exc>>

\* while not all([x.successful() or x.failed() for x in async_funcs]):
WhileTest ==
    /\ pc = "while"
    /\ pc' = IF all_terminal(tasks, async_funcs) THEN "collect" ELSE "count"
    /\ UNCHANGED <<flavor, async_list, max_centroid, tasks, async_funcs,
                   bar_total, bar_n, done_count, done_list, display_scores,
                   rendered, ret, exc>>

\* done_count = len([... for x in async_funcs if x.successful() or x.failed()])
DoneCount ==
    /\ pc = "count"
    /\ done_count' = count_terminal(tasks, async_funcs)
    /\ pc' = IF flavor = "iter" THEN "update" ELSE "sweep"
    /\ UNCHANGED <<flavor, async_list, max_centroid, tasks, async_funcs,
                   bar_total, bar_n, done_list, display_scores, rendered,
                   ret, exc>>

\* bar.update(done_count), the count itself as the increment.
bar_increment_abs(count, n) == count

\* The increment given to the bar: done_count - bar.n
bar_increment(count, n) == count - n

\* bar.update(n) adds n to bar.n
bar_update(n, inc) == n + inc

\* bar.update(done_count - bar.n)
BarUpdate ==
    /\ pc = "update"
    /\ bar_n' = bar_update(bar_n, bar_increment(done_count, bar_n))
    /\ pc' = "sleep"
    /\ UNCHANGED <<flavor, async_list, max_centroid, tasks, async_funcs,
                   bar_total, done_count, done_list, display_scores,
                   rendered, ret, exc>>

\* done_list = check_iter_status(async_funcs, done_list): the sweep, and the
\* call of display_scores_list(done_list) when the flag is set.  The
\* NameError of display_scores_list is not caught by check_iter_status nor
\* by async_and_iter_clusters, so it ends the workflow.
CheckIterStatus ==
    /\ pc = "sweep"
    /\ LET swept == check_iter_status(tasks, async_funcs, done_list)
           shown == display_scores_list(swept.done_list, TRUE)
       IN  /\ done_list' = IF swept.display_scores
                          THEN shown.done_list ELSE swept.done_list
           /\ display_scores' = swept.display_scores
           /\ IF swept.display_scores
              THEN /\ rendered' = Append(rendered, shown)
                   /\ exc' = shown.raises
                   /\ pc' = IF shown.raises = "none" THEN "sleep" ELSE "raised"
              ELSE /\ rendered' = rendered
                   /\ exc' = exc
                   /\ pc' = "sleep"
    /\ UNCHANGED <<flavor, async_list, max_centroid, tasks, async_funcs,
                   bar_total, bar_n, done_count, ret>>

\* time.sleep(1) / time.sleep(.1)
Sleep ==
    /\ pc = "sleep"
    /\ pc' = "while"
    /\ UNCHANGED <<flavor, async_list, max_centroid, tasks, async_funcs,
                   bar_total, bar_n, done_count, done_list, display_scores,
                   rendered, ret, exc>>

\* bar.close() (async_and_iter) and
\* return [x.get(propagate=False) for x in async_funcs if not x.failed()]
Return ==
    /\ pc = "collect"
    /\ ret' = collect(tasks, async_funcs)
    /\ pc' = "done"
    /\ UNCHANGED <<flavor, async_list, max_centroid, tasks, async_funcs,
                   bar_total, bar_n, done_count, done_list, display_scores,
                   rendered, exc>>

Backend == TaskSucceeds \/ TaskFails

Workflow ==
    \/ Delay
    \/ DelayRaises
    \/ EnterLoop
    \/ WhileTest
    \/ DoneCount
    \/ BarUpdate
    \/ CheckIterStatus
    \/ Sleep
    \/ Return

Next ==
    \/ TaskSucceeds
    \/ TaskFails
    \/ Delay
    \/ DelayRaises
    \/ EnterLoop
    \/ WhileTest
    \/ DoneCount
    \/ BarUpdate
    \/ CheckIterStatus
    \/ Sleep
    \/ Return

Spec == Init /\ [][Next]_vars

\* The polling loop is one thread that keeps running, and (the assumption
\* of the termination claim) the backend finishes every task it was given.
FairSpec == Spec /\ WF_vars(Workflow) /\ WF_vars(Backend)


\* ------------------------------------------------- check_iter_status alone
\* check_iter_status is a module-level function: here a caller holds some
\* handles and one seen list and calls it again and again while the backend
\* moves the tasks.  The list is appended to in place, so the caller's list
\* carries the sweep's entries also when display_scores_list raised; exc is
\* how the last call ended.
InitTracker ==
    /\ flavor = "tracker"
    /\ async_list = << >>
    /\ max_centroid = 0
    /\ \E n \in 1..MaxItems :
           /\ tasks = [i \in 1..n |-> [item |-> i, state |-> "PENDING",
                                       result |-> NoneResult]]
           /\ async_funcs = [i \in 1..n |-> i]
    /\ pc = "call"
    /\ bar_total = 0
    /\ bar_n = 0
    /\ done_count = 0
    /\ done_list = << >>
    /\ display_scores = FALSE
    /\ rendered = << >>
    /\ ret = << >>
    /\ exc = "none"

TrackerCall ==
    /\ flavor = "tracker"
    /\ pc = "call"
    /\ LET swept == check_iter_status(tasks, async_funcs, done_list)
           shown == display_scores_list(swept.done_list, TRUE)
       IN  /\ done_list' = IF swept.display_scores
                          THEN shown.done_list ELSE swept.done_list
           /\ display_scores' = swept.display_scores
           /\ IF swept.display_scores
              THEN /\ rendered' = Append(rendered, shown)
                   /\ exc' = shown.raises
              ELSE /\ rendered' = rendered
                   /\ exc' = "none"
    /\ UNCHANGED <<flavor, async_list, max_centroid, tasks, async_funcs, pc,
                   bar_total, bar_n, done_count, ret>>

NextTracker ==
    \/ TaskSucceeds
    \/ TaskFails
    \/ TrackerCall

SpecTracker == InitTracker /\ [][NextTracker]_vars


\* ------------------------------------------------------------- properties
\* Positions of async_funcs whose handle is not failed, and the place the
\* result of position i has in a list that keeps submission order and
\* skips the failed handles.
NotFailedAt == {i \in 1..Len(async_funcs) : tasks[async_funcs[i]].state # "FAILURE"}
PlaceOf(i) == Cardinality({j \in NotFailedAt : j <= i})

\* C1: when async_and_iter or async_and_iter_clusters has returned, the list
\* is the results of the non-failed handles in submission order: the result
\* of every non-failed handle stands at the place its submission rank among
\* the non-failed handles gives it (so i before j in submission is i before
\* j in the list), and every entry of the list is such a result: a failed
\* handle leaves no placeholder.
C1_ReturnKeepsSubmissionOrder ==
    pc = "done" =>
        /\ \A i \in NotFailedAt :
               /\ PlaceOf(i) \in 1..Len(ret)
               /\ ret[PlaceOf(i)] = tasks[async_funcs[i]].result
        /\ \A k \in 1..Len(ret) :
               /\ \E i \in NotFailedAt : PlaceOf(i) = k
               /\ ret[k] \in ResultRecord

\* async_and_iter_clusters returned three handles' worth: a failed handle
\* between two successful ones with different results.
C1_Witness ==
    /\ flavor = "clusters"
    /\ pc = "done"
    /\ Len(async_funcs) = 3
    /\ tasks[async_funcs[1]].state = "SUCCESS"
    /\ tasks[async_funcs[2]].state = "FAILURE"
    /\ tasks[async_funcs[3]].state = "SUCCESS"
    /\ tasks[async_funcs[1]].result # tasks[async_funcs[3]].result
    /\ Len(ret) = 2

\* C2: the returned list has one entry per handle that is not failed and
\* none for a failed handle: its length is the number of non-failed handles.
C2_LengthIsNotFailedCount ==
    pc = "done" => Len(ret) = Cardinality(NotFailedAt)

\* async_and_iter returned with some handles failed and some not.
C2_Witness ==
    /\ flavor = "iter"
    /\ pc = "done"
    /\ Len(async_funcs) = 3
    /\ Cardinality(NotFailedAt) = 1
    /\ Len(ret) = 1

\* C3: the workflow leaves the polling loop only with every handle terminal,
\* the collect step starts and the workflow returns only with every handle
\* terminal: while a handle is pending the workflow stays in the loop.
C3_LoopLeftOnlyWhenAllTerminal ==
    [][/\ (pc \in LoopPcs /\ pc' \notin LoopPcs)
              => all_terminal(tasks', async_funcs')
       /\ pc' \in {"collect", "done"} => all_terminal(tasks', async_funcs')]_vars

\* What does hold of C3 in both flavors: the loop condition lets the workflow
\* on to the collect step, and the workflow returns, only with every handle
\* terminal; the one other way out of the loop is the exception of the sweep.
C3_CollectOnlyWhenAllTerminal ==
    [][/\ pc' \in {"collect", "done"} => all_terminal(tasks', async_funcs')
       /\ (pc \in LoopPcs /\ pc' \notin LoopPcs /\ pc' # "raised")
              => all_terminal(tasks', async_funcs')
       /\ (pc \in LoopPcs /\ pc' = "raised")
              => (flavor = "clusters" /\ exc' = "NameError")]_vars

\* C4: with the loop scheduled fairly and every task eventually terminal, a
\* workflow that entered the polling loop eventually returns its list.
C4_EventuallyReturns == (pc = "while") ~> (pc = "done")

\* What does hold of C4: async_and_iter eventually returns, and
\* async_and_iter_clusters eventually returns or ends in the NameError.
C4_ReturnsOrNameError ==
    (pc = "while") ~> (pc = "done" \/ (flavor = "clusters" /\ exc = "NameError"))

\* C5: once async_and_iter has left the polling loop, the progress shown by
\* the bar is the number of handles.
C5_BarReachesTotal ==
    (flavor = "iter" /\ pc \in {"collect", "done"}) => bar_n = Len(async_funcs)

\* C6: in async_and_iter every increment given to the bar is non-negative,
\* so the count shown never decreases, and the count shown never exceeds
\* the number of handles.
C6_ProgressMonotone ==
    [][/\ pc = "update" => bar_increment(done_count, bar_n) >= 0
       /\ bar_n' >= bar_n
       /\ bar_n' <= Len(async_funcs')]_vars

\* The bar went up to 2 of 3 and the loop goes on.
C6_Witness ==
    /\ flavor = "iter"
    /\ pc = "sleep"
    /\ Len(async_funcs) = 3
    /\ bar_n = 2
    /\ ~all_terminal(tasks, async_funcs)

\* C7: when async_and_iter_clusters has returned, the result of every
\* successful job is in the seen list and was in some call of the reporter.
C7_EveryResultRendered ==
    (flavor = "clusters" /\ pc = "done") =>
        \A i \in 1..Len(async_funcs) :
            tasks[async_funcs[i]].state = "SUCCESS" =>
                /\ In(tasks[async_funcs[i]].result, done_list)
                /\ \E k \in 1..Len(rendered) :
                       In(tasks[async_funcs[i]].result, rendered[k].arg)

\* C8: no two entries of the seen list are equal.
C8_SeenDistinct ==
    \A i, j \in 1..Len(done_list) : i # j => done_list[i] # done_list[j]

\* One sweep took in three successful handles, two of them with equal
\* results, and left two entries; sweeping again finds nothing new.
C8_Witness ==
    /\ flavor = "tracker"
    /\ Len(async_funcs) = 3
    /\ \A i \in 1..3 : tasks[async_funcs[i]].state = "SUCCESS"
    /\ tasks[async_funcs[1]].result = tasks[async_funcs[3]].result
    /\ tasks[async_funcs[1]].result # tasks[async_funcs[2]].result
    /\ Len(rendered) = 1
    /\ Len(done_list) = 2
    /\ ~check_iter_status(tasks, async_funcs, done_list).display_scores

\* C9: after any call of check_iter_status, a second call with the same
\* handles in the same states and the list the first call left returns the
\* same list, same entries in the same order, and does not set the flag
\* that calls the reporter.
C9_SecondCallChangesNothing ==
    [][TrackerCall =>
          LET again == check_iter_status(tasks', async_funcs', done_list')
          IN  /\ again.done_list = done_list'
              /\ ~again.display_scores]_vars

\* A call that found the list already holding every ready result: the seen
\* list has entries, an earlier call rendered, this one returned normally.
C9_Witness ==
    /\ flavor = "tracker"
    /\ Len(done_list) >= 2
    /\ Len(rendered) >= 1
    /\ ~display_scores
    /\ exc = "none"
    /\ ready_results(tasks, async_funcs) # << >>

\* C10: a sweep sets the flag and calls the reporter, once, with the list as
\* the sweep left it, exactly when some ready, non-failed handle has a
\* result that is not in the seen list; any other sweep calls no reporter.
C10_ReporterIffNewResult ==
    [][TrackerCall =>
          LET found == \E i \in 1..Len(async_funcs) :
                           /\ ready(tasks, async_funcs[i])
                           /\ ~failed(tasks, async_funcs[i])
                           /\ ~In(get(tasks, async_funcs[i]), done_list)
          IN  /\ display_scores' <=> found
              /\ IF found
                 THEN /\ Len(rendered') = Len(rendered) + 1
                      /\ SubSeq(rendered', 1, Len(rendered)) = rendered
                      /\ rendered'[Len(rendered')].arg = done_list'
                 ELSE rendered' = rendered]_vars

\* Two sweeps each found a new result and called the reporter with the list
\* they left; the sweep after them, over the same ready handles and a
\* failed one, called none.
C10_Witness ==
    /\ flavor = "tracker"
    /\ Len(rendered) = 2
    /\ rendered[2].arg = done_list
    /\ Len(rendered[1].arg) < Len(done_list)
    /\ ~display_scores
    /\ \E i \in 1..Len(async_funcs) : tasks[async_funcs[i]].state = "FAILURE"


\* C11: when no submission raised, the dispatch loop has submitted one job
\* per work item, in item order: the backend got as many jobs as there are
\* items, the k-th of them for item k, and the handle list has the length
\* of the item list with the handle of item i's job at position i.  While
\* the loop runs the same holds of the items dispatched so far.
C11_HandlesMatchItems ==
    exc # "SubmitError" =>
        /\ Len(tasks) = Len(async_funcs)
        /\ Len(async_funcs) <= Len(work_items)
        /\ pc # "dispatch" => Len(async_funcs) = Len(work_items)
        /\ \A i \in 1..Len(async_funcs) :
               /\ async_funcs[i] \in 1..Len(tasks)
               /\ tasks[async_funcs[i]].item = work_items[i]
               /\ tasks[i].item = work_items[i]
        /\ \A i, j \in 1..Len(async_funcs) :
               i # j => async_funcs[i] # async_funcs[j]

\* async_and_iter dispatched three items and is in its polling loop.
C11_Witness ==
    /\ flavor = "iter"
    /\ pc = "while"
    /\ Len(async_list) = 3
    /\ Len(async_funcs) = 3
    /\ exc = "none"

\* C12: after the dispatch loop no step submits a job or changes the handle
\* list or the item of a job, whatever the jobs' outcomes, and the number
\* of jobs the backend was given never exceeds the number of items.
C12_NoResubmission ==
    [][/\ pc # "dispatch" =>
              /\ Len(tasks') = Len(tasks)
              /\ async_funcs' = async_funcs
              /\ \A t \in 1..Len(tasks) : tasks'[t].item = tasks[t].item
       /\ Len(tasks') <= Len(work_items')]_vars

\* A workflow of three jobs returned with a failed job among them, and the
\* backend holds three jobs.
C12_Witness ==
    /\ pc = "done"
    /\ Len(work_items) = 3
    /\ Len(tasks) = 3
    /\ \E i \in 1..Len(async_funcs) : failed(tasks, async_funcs[i])

\* C13: once a submission raised, the workflow is over with that error: no
\* further job is submitted (the jobs submitted before stay in the
\* backend), the item that raised and the items after it have no job, the
\* polling loop is not entered, the reporter is not called and nothing is
\* returned.
C13_SubmitErrorPropagates ==
    [][exc' = "SubmitError" =>
          /\ pc' = "raised"
          /\ Len(tasks') = Len(tasks)
          /\ Len(tasks') < Len(work_items')
          /\ async_funcs' = async_funcs
          /\ \A t \in 1..Len(tasks) : tasks'[t].item = tasks[t].item
          /\ rendered' = << >>
          /\ done_list' = << >>
          /\ ret' = << >>]_vars

\* The third of three submissions raised; the two jobs submitted before are
\* in the backend and one of them has finished since.
C13_Witness ==
    /\ exc = "SubmitError"
    /\ pc = "raised"
    /\ Len(work_items) = 3
    /\ Len(tasks) = 2
    /\ \E t \in 1..Len(tasks) : tasks[t].state = "SUCCESS"


\* C14: a failed job is no error of the workflow: in a run with failed
\* handles, any and all of them, no step after the dispatch ends the
\* workflow in an exception, and a workflow whose jobs all failed returns
\* the empty list.
C14_FailureNeverAnError ==
    /\ (\E i \in 1..Len(async_funcs) : failed(tasks, async_funcs[i]))
           => (pc = "raised" => exc = "SubmitError")
    /\ (pc = "done" /\ \A i \in 1..Len(async_funcs) : failed(tasks, async_funcs[i]))
           => ret = << >>

\* What does hold of C14: the one exception after the dispatch is the
\* NameError of a sweep that found the new result of a successful handle,
\* never the doing of a failed handle; async_and_iter never raises, and a
\* workflow whose handles all failed is never ended by an exception.
C14_RaiseOnlyOnNewSuccess ==
    [][/\ (pc # "dispatch" /\ pc' = "raised" /\ pc # "raised") =>
              /\ flavor = "clusters"
              /\ exc' = "NameError"
              /\ \E i \in 1..Len(async_funcs) :
                     /\ successful(tasks, async_funcs[i])
                     /\ ~In(get(tasks, async_funcs[i]), done_list)
       /\ (pc' = "done" /\ \A i \in 1..Len(async_funcs') :
                               failed(tasks', async_funcs'[i]))
              => ret' = << >>]_vars


\* C15: a sweep takes results only from handles that are ready and not
\* failed: every entry a sweep adds to the seen list is the result of a
\* successful handle, and nothing a pending or a failed handle holds is
\* read or enters the list.
C15_SweepReadsOnlySuccessful ==
    [][TrackerCall =>
          /\ \A k \in (Len(done_list) + 1)..Len(done_list') :
                 \E i \in 1..Len(async_funcs) :
                     /\ successful(tasks, async_funcs[i])
                     /\ done_list'[k] = get(tasks, async_funcs[i])
          /\ \A i \in 1..Len(async_funcs) :
                 ~successful(tasks, async_funcs[i]) =>
                     \/ In(get(tasks, async_funcs[i]), done_list)
                     \/ ~In(get(tasks, async_funcs[i]), done_list')]_vars

\* A sweep over a successful, a failed and a pending handle added the one
\* result.
C15_Witness ==
    /\ flavor = "tracker"
    /\ Len(async_funcs) = 3
    /\ tasks[async_funcs[1]].state = "FAILURE"
    /\ tasks[async_funcs[2]].state = "SUCCESS"
    /\ tasks[async_funcs[3]].state = "PENDING"
    /\ display_scores
    /\ done_list = <<tasks[async_funcs[2]].result>>


\* C16: the seen list is append-only and keeps arrival order: over every
\* step, and so from one sweep to the next, the list before is a prefix of
\* the list after; a sweep that calls the reporter leaves the list as the
\* sweep's appends made it, the reporter having received that very list.
C16_SeenAppendOnly ==
    [][/\ Len(done_list') >= Len(done_list)
       /\ SubSeq(done_list', 1, Len(done_list)) = done_list
       /\ (TrackerCall /\ display_scores') =>
              /\ done_list' = check_iter_status(tasks, async_funcs, done_list).done_list
              /\ rendered'[Len(rendered')].arg = done_list']_vars

\* The seen list got a result with score 2 in one sweep and a result with
\* score 1 in a later one, and keeps them in that order; the table of the
\* last render has them in the other order.
C16_Witness ==
    /\ flavor = "tracker"
    /\ Len(rendered) = 2
    /\ Len(done_list) = 2
    /\ done_list[1].score > done_list[2].score
    /\ Len(rendered[1].arg) = 1
    /\ rendered[2].arg = done_list
    /\ rendered[2].temp_list = <<done_list[2], done_list[1]>>


\* How many entries of list equal v.
Occurrences(list, v) == Cardinality({k \in 1..Len(list) : list[k] = v})

\* C17: the list async_and_iter_clusters returns is not deduplicated: it
\* holds every value as many times as non-failed handles carry it, so both
\* of two equal results are in it, while the seen list holds every value at
\* most once.
C17_ReturnKeepsDuplicates ==
    /\ (flavor = "clusters" /\ pc = "done") =>
           /\ Len(ret) = Cardinality(NotFailedAt)
           /\ \A v \in ResultRecord :
                  Occurrences(ret, v) =
                      Cardinality({i \in NotFailedAt :
                                      tasks[async_funcs[i]].result = v})
    /\ \A v \in ResultRecord : Occurrences(done_list, v) <= 1

\* async_and_iter_clusters returned the equal results of two jobs, twice the
\* same value, and the different result of a third.
C17_Witness ==
    /\ flavor = "clusters"
    /\ pc = "done"
    /\ Len(async_funcs) = 3
    /\ Len(ret) = 3
    /\ ret[1] = ret[3]
    /\ ret[1] # ret[2]
    /\ Occurrences(done_list, ret[1]) <= 1


\* C18: async_and_iter_clusters(all_functions, max) submits one job for each
\* cluster count c with 2 <= c <= max, in increasing order of c; for
\* max < 2 it submits nothing, never sweeps or renders, and returns the
\* empty list.
C18_SearchesTwoToMax ==
    (flavor = "clusters" /\ pc # "dispatch" /\ exc # "SubmitError") =>
        /\ Len(tasks) = Len(Range(2, max_centroid + 1))
        /\ \A t \in 1..Len(tasks) : tasks[t].item = Range(2, max_centroid + 1)[t]
        /\ max_centroid < 2 =>
               /\ tasks = << >>
               /\ rendered = << >>
               /\ pc \in {"while", "collect", "done"}
               /\ pc = "done" => ret = << >>

\* What does hold of C18: the search covers the cluster counts 2..max-1,
\* one job each in increasing order, and for max <= 2 no job is submitted,
\* no sweep or render happens, and the empty list is returned.
C18_SearchesTwoToMaxMinusOne ==
    (flavor = "clusters" /\ pc # "dispatch" /\ exc # "SubmitError") =>
        /\ Len(tasks) = Len(Range(2, max_centroid))
        /\ \A t \in 1..Len(tasks) : tasks[t].item = 1 + t
        /\ \A t \in 1..Len(tasks) : tasks[t].item < max_centroid
        /\ max_centroid <= 2 =>
               /\ tasks = << >>
               /\ rendered = << >>
               /\ pc \in {"while", "collect", "done"}
               /\ pc = "done" => ret = << >>


\* C19: at every point of async_and_iter_clusters every entry of the seen
\* list equals the result of a submitted handle that is terminal and not
\* failed; so when the workflow has returned, every value of the seen list
\* is a value of the returned list.
C19_SeenFromSuccessfulHandles ==
    flavor = "clusters" =>
        /\ \A k \in 1..Len(done_list) :
               \E i \in 1..Len(async_funcs) :
                   /\ ready(tasks, async_funcs[i])
                   /\ ~failed(tasks, async_funcs[i])
                   /\ get(tasks, async_funcs[i]) = done_list[k]
        /\ pc = "done" => \A k \in 1..Len(done_list) : In(done_list[k], ret)

\* A sweep of async_and_iter_clusters over a failed, a successful and a
\* pending handle put the one result in the seen list.
C19_Witness ==
    /\ flavor = "clusters"
    /\ Len(async_funcs) = 3
    /\ tasks[async_funcs[1]].state = "FAILURE"
    /\ tasks[async_funcs[2]].state = "SUCCESS"
    /\ tasks[async_funcs[3]].state = "PENDING"
    /\ done_list = <<tasks[async_funcs[2]].result>>
    /\ Len(rendered) = 1

=============================================================================
